---- MODULE Spec2Model ----
(***************************************************************************)
(* Model of json-ipc-server (src/src/lib.rs): a mio event loop serving     *)
(* JSON-RPC requests over a unix socket.  The state is the slab of         *)
(* SocketConnection values, the event loop's one-shot registrations, the   *)
(* two RwLocks of Server, the threads that call Server::run / Server::poll *)
(* and the client side of every accepted socket.                           *)
(***************************************************************************)
EXTENDS Integers, Sequences, FiniteSets, TLC

(* ---------------------------- bounds ----------------------------------- *)
MaxSends == 2          \* messages all clients together may send
MaxThreads == 2        \* threads sharing the Server
MaxRoom == 2           \* most bytes a socket has room for in one write
MaxClients == 2        \* clients that connect while the server runs

(* ------------------------ program constants ---------------------------- *)
SERVER == 0
CLIENT == 1
SlabCapacity == 8
ReadCapacity == 2048

\* Option<T>: None is the empty sequence, Some(x) the sequence holding x
None == << >>
Some(x) == << x >>
NoThread == 0

Tokens == CLIENT..(CLIENT + SlabCapacity - 1)
Sockets == 1..SlabCapacity
Threads == 1..MaxThreads

(* Bytes on the wire: 'q' opens a request, 'n' a notification, 'r' a        *)
(* response; 0xFF is never valid in UTF-8.                                 *)
ByteQ == 113
ByteN == 110
ByteR == 114
ByteBad == 255

Msgs == { <<ByteQ>>, <<ByteN>>, <<ByteBad>> }

(* ------------------------ pure helpers --------------------------------- *)
Min(a, b) == IF a < b THEN a ELSE b

Take(s, n) == SubSeq(s, 1, Min(n, Len(s)))
Drop(s, n) == SubSeq(s, Min(n, Len(s)) + 1, Len(s))

RECURSIVE NextPow2From(_, _)
NextPow2From(p, n) == IF p >= n THEN p ELSE NextPow2From(2 * p, n)

\* u32::next_power_of_two, the rounding ByteBuf applies to a requested capacity
next_power_of_two(n) == NextPow2From(1, n)

\* String::from_utf8 on this alphabet: fails iff the byte 0xFF occurs
from_utf8_ok(bytes) == \A i \in 1..Len(bytes) : bytes[i] < 128

\* IoHandler::handle_request: a notification (first byte 'n') owes no reply,
\* anything else (also unparsable text) gets a reply that depends on the text
handle_request(str) ==
    IF Len(str) > 0 /\ str[1] = ByteN THEN None ELSE Some(<<ByteR>> \o str)

\* ByteBuf::from_slice: a read-only buffer over a copy of the bytes
from_slice(bytes) ==
    [data |-> bytes, pos |-> 0, cap |-> next_power_of_two(Len(bytes))]

\* ByteBuf::mut_with_capacity
mut_with_capacity(n) == [data |-> <<>>, cap |-> next_power_of_two(n)]

\* ByteBuf::flip: back to a mutable buffer over the same storage, emptied
flip(b) == [data |-> <<>>, cap |-> b.cap]

(* ---------------------------- state ------------------------------------ *)
VARIABLES
    connections,   \* RpcServer.connections: token -> SocketConnection or None
    registry,      \* EventLoop registrations: token -> [interest, armed] or None
    backlog,       \* connections pending on the listening socket
    nsock,         \* sockets handed out by accept so far
    inq,           \* socket -> bytes sent by the client, not yet read
    sent,          \* socket -> the messages the client has sent, in order
    out,           \* socket -> every byte the server has written
    peerClosed,    \* socket -> the client has closed its end
    pc,            \* thread -> where it is in Server::run / Server::poll
    mode,          \* thread -> "run" | "poll" | "none"
    el_lock,       \* Server.event_loop : holder of the write lock
    srv_lock,      \* Server.rpc_server : holder of the write lock
    poisoned       \* the locks a thread panicked under

vars == << connections, registry, backlog, nsock, inq, sent, out,
           peerClosed, pc, mode, el_lock, srv_lock, poisoned >>

srvvars == << connections, registry, out >>
thrvars == << pc, mode, el_lock, srv_lock, poisoned >>

(* ------------------- the machine a handler runs on --------------------- *)
(* A handler is a function on the record M of what RpcServer::ready can    *)
(* touch: the slab, the registrations, the listener's backlog, the         *)
(* sockets, plus err (an io::Result Err on its way to the caller) and      *)
(* panic (the thread is unwinding).                                        *)
Machine ==
    [conns |-> connections, reg |-> registry, backlog |-> backlog,
     nsock |-> nsock, inq |-> inq, out |-> out, closed |-> peerClosed,
     err |-> FALSE, panic |-> FALSE]

\* Result::unwrap / Option::unwrap / expect on a failed value
unwrap(M) == IF M.err THEN [M EXCEPT !.panic = TRUE] ELSE M

\* EventLoop::register: install the registration, armed; ok = FALSE is the
\* system call failing
register(M, tok, interest, ok) ==
    IF ok THEN [M EXCEPT !.reg[tok] = Some([interest |-> interest, armed |-> TRUE])]
          ELSE [M EXCEPT !.err = TRUE]

\* EventLoop::reregister: replace the registration's interest and arm it
reregister(M, tok, interest, ok) ==
    IF M.reg[tok] = None THEN [M EXCEPT !.err = TRUE]
    ELSE register(M, tok, interest, ok)

\* SocketConnection::new
new(sock) ==
    [socket |-> sock, buf |-> None,
     mut_buf |-> Some(mut_with_capacity(ReadCapacity)),
     token |-> None, interest |-> {"hup"}]

\* Slab::insert: Some(first vacant slot), or None when the slab is full
insert(conns) ==
    IF \A t \in Tokens : conns[t] # None THEN None
    ELSE Some(CHOOSE t \in Tokens :
                  conns[t] = None /\ \A u \in Tokens : u < t => conns[u] # None)

\* Results of the non-blocking calls: Err(e), Ok(None), Ok(Some(n))
Err == [kind |-> "Err", n |-> 0]
WouldBlock == [kind |-> "WouldBlock", n |-> 0]
Ok(n) == [kind |-> "Ok", n |-> n]

\* TryRead::try_read_buf on socket s into a buffer with room for `room`
\* bytes; a closed and drained socket reads 0 bytes
try_read_buf(M, s, room, io_err) ==
    IF io_err THEN Err
    ELSE IF M.inq[s] = <<>> /\ ~M.closed[s] THEN WouldBlock
    ELSE Ok(Min(Len(M.inq[s]), room))

\* TryWrite::try_write_buf of `remaining` bytes to socket s; wr is what the
\* socket does: Err, WouldBlock or Ok(the number of bytes it has room for);
\* a write to a socket whose peer has closed fails (EPIPE)
try_write_buf(M, s, remaining, wr) ==
    IF M.closed[s] THEN Err
    ELSE IF wr.kind = "Ok" THEN Ok(Min(wr.n, remaining)) ELSE wr

\* a handler that echoes what was read, as in the echo server this
\* connection type derives from
response_echo(bytes) == Some(bytes)

\* the response readable obtains for the bytes read: the handler's, when the
\* bytes decode as UTF-8
response_for(bytes) ==
    IF from_utf8_ok(bytes) THEN handle_request(bytes) ELSE None

\* a take that leaves the buffer in its field
take_peek(opt) == opt

\* what Option::take leaves in the field it takes the buffer from
take(opt) == None

\* the interest set is left as it was
failed_read_interest_kept(interest) == interest

\* the interest set after a failed read: readable is removed
failed_read_interest(interest) == interest \ {"readable"}

\* readable is inserted and writable is left in
flushed_interest_both(interest) == interest \cup {"readable"}

\* the interest set after a completed write: readable is inserted and
\* writable removed
flushed_interest(interest) == (interest \cup {"readable"}) \ {"writable"}

\* SocketConnection::readable
readable(M, tok, io_err, rr_ok) ==
    LET c == M.conns[tok][1] IN
    IF c.mut_buf = None THEN [M EXCEPT !.panic = TRUE]
    ELSE
    LET buf == c.mut_buf[1]
        s == c.socket
        r == try_read_buf(M, s, buf.cap - Len(buf.data), io_err)
    IN  IF r.kind = "WouldBlock" THEN
            reregister([M EXCEPT !.conns[tok][1].mut_buf = Some(buf)],
                       tok, c.interest, rr_ok)
        ELSE IF r.kind = "Err" THEN
            LET interest == failed_read_interest(c.interest) IN
            reregister([M EXCEPT !.conns[tok][1].mut_buf = take(c.mut_buf),
                                 !.conns[tok][1].interest = interest],
                       tok, interest, rr_ok)
        ELSE
            LET bytes == buf.data \o Take(M.inq[s], r.n)
                response == response_for(bytes)
                interest == (c.interest \ {"readable"}) \cup {"writable"}
            IN  reregister([M EXCEPT !.inq[s] = Drop(@, r.n),
                                     !.conns[tok][1].mut_buf = take(c.mut_buf),
                                     !.conns[tok][1].buf =
                                         IF response # None
                                         THEN Some(from_slice(response[1]))
                                         ELSE c.buf,
                                     !.conns[tok][1].interest = interest],
                           tok, interest, rr_ok)

\* SocketConnection::writable
writable(M, tok, wr, rr_ok) ==
    LET c == M.conns[tok][1] IN
    IF c.buf = None THEN [M EXCEPT !.panic = TRUE]
    ELSE
    LET buf == c.buf[1]
        s == c.socket
        r == try_write_buf(M, s, Len(buf.data) - buf.pos, wr)
    IN  IF r.kind = "WouldBlock" THEN
            LET interest == c.interest \cup {"writable"} IN
            reregister([M EXCEPT !.conns[tok][1].buf = Some(buf),
                                 !.conns[tok][1].interest = interest],
                       tok, interest, rr_ok)
        ELSE IF r.kind = "Err" THEN
            reregister([M EXCEPT !.conns[tok][1].buf = take(c.buf)],
                       tok, c.interest, rr_ok)
        ELSE
            LET interest == flushed_interest(c.interest) IN
            reregister([M EXCEPT !.out[s] =
                                     @ \o SubSeq(buf.data, buf.pos + 1, buf.pos + r.n),
                                 !.conns[tok][1].buf = take(c.buf),
                                 !.conns[tok][1].mut_buf = Some(flip(buf)),
                                 !.conns[tok][1].interest = interest],
                       tok, interest, rr_ok)

\* RpcServer::accept
accept(M, rr_ok) ==
    IF M.backlog = 0 THEN [M EXCEPT !.panic = TRUE]
    ELSE
    LET sock == M.nsock + 1
        token == insert(M.conns)
    IN  IF token = None THEN [M EXCEPT !.panic = TRUE]
        ELSE unwrap(register(
                 [M EXCEPT !.backlog = @ - 1, !.nsock = sock,
                           !.conns[token[1]] =
                               Some([new(sock) EXCEPT !.token = token])],
                 token[1], {"readable"}, rr_ok))

\* RpcServer::connection: Some(slot of tok); indexing a vacant slot panics
connection(M, tok) == IF M.conns[tok] = None THEN None ELSE Some(tok)

\* RpcServer::connection_readable
connection_readable(M, tok, io_err, rr_ok) ==
    IF connection(M, tok) = None THEN [M EXCEPT !.panic = TRUE]
    ELSE readable(M, connection(M, tok)[1], io_err, rr_ok)

\* RpcServer::connection_writable
connection_writable(M, tok, wr, rr_ok) ==
    IF connection(M, tok) = None THEN [M EXCEPT !.panic = TRUE]
    ELSE writable(M, connection(M, tok)[1], wr, rr_ok)

\* Handler::ready for RpcServer
ready(M, token, events, io_err, wr, rr_ok) ==
    LET M1 == IF "readable" \in events
              THEN IF token = SERVER
                   THEN unwrap(accept(M, rr_ok))
                   ELSE unwrap(connection_readable(M, token, io_err, rr_ok))
              ELSE M
    IN  IF M1.panic THEN M1
        ELSE IF "writable" \in events /\ token # SERVER
             THEN unwrap(connection_writable(M1, token, wr, rr_ok))
             ELSE M1

(* ------------------------------ Init ----------------------------------- *)
\* RpcServer::start and Server::new: the listener is registered for readable
\* (edge, one-shot) under SERVER, the slab is empty, both locks are free
Init ==
    /\ connections = [t \in Tokens |-> None]
    /\ registry = [t \in {SERVER} \cup Tokens |->
                      IF t = SERVER
                      THEN Some([interest |-> {"readable"}, armed |-> TRUE])
                      ELSE None]
    /\ backlog = 0
    /\ nsock = 0
    /\ inq = [s \in Sockets |-> << >>]
    /\ sent = [s \in Sockets |-> << >>]
    /\ out = [s \in Sockets |-> << >>]
    /\ peerClosed = [s \in Sockets |-> FALSE]
    /\ pc = [th \in Threads |-> "idle"]
    /\ mode = [th \in Threads |-> "none"]
    /\ el_lock = NoThread
    /\ srv_lock = NoThread
    /\ poisoned = {}

(* --------------------------- the clients ------------------------------- *)
\* the clients are followed for as long as the event loop has not panicked:
\* after that no handler runs, and nothing a client does is looked at
Crashed == poisoned # {}

RECURSIVE SentUpTo(_)
SentUpTo(s) == IF s = 0 THEN 0 ELSE Len(sent[s]) + SentUpTo(s - 1)
SentCount == SentUpTo(SlabCapacity)

\* a client connects to the socket path (dummy_request: UnixStream::connect)
ClientConnect ==
    /\ ~Crashed
    /\ backlog + nsock < MaxClients
    /\ backlog' = backlog + 1
    /\ UNCHANGED << nsock, inq, sent, out, peerClosed, srvvars, thrvars >>

\* a client writes one message (dummy_request: sock.write)
ClientSend(s, m) ==
    /\ ~Crashed
    /\ s <= nsock
    /\ ~peerClosed[s]
    /\ SentCount < MaxSends
    /\ inq' = [inq EXCEPT ![s] = @ \o m]
    /\ sent' = [sent EXCEPT ![s] = Append(@, m)]
    /\ UNCHANGED << backlog, nsock, out, peerClosed, srvvars, thrvars >>

\* a client closes its socket (dummy_request returns, sock is dropped)
ClientClose(s) ==
    /\ ~Crashed
    /\ s <= nsock
    /\ ~peerClosed[s]
    /\ peerClosed' = [peerClosed EXCEPT ![s] = TRUE]
    /\ UNCHANGED << backlog, nsock, inq, sent, out, srvvars, thrvars >>

(* ----------------------- Server::run / Server::poll -------------------- *)
\* a lock taken without waiting for its holder, as RwLock::read would be
\* among readers
write_shared(holder) == TRUE

\* RwLock::write can take the lock when nobody holds it
write(holder) == holder = NoThread

\* a thread calls Server::run
CallRun(th) ==
    /\ pc[th] = "idle"
    /\ pc' = [pc EXCEPT ![th] = "lock_el"]
    /\ mode' = [mode EXCEPT ![th] = "run"]
    /\ UNCHANGED << el_lock, srv_lock, poisoned, srvvars,
                    backlog, nsock, inq, sent, peerClosed >>

\* a thread calls Server::poll
CallPoll(th) ==
    /\ pc[th] = "idle"
    /\ pc' = [pc EXCEPT ![th] = "lock_el"]
    /\ mode' = [mode EXCEPT ![th] = "poll"]
    /\ UNCHANGED << el_lock, srv_lock, poisoned, srvvars,
                    backlog, nsock, inq, sent, peerClosed >>

\* self.event_loop.write().unwrap(): a poisoned lock makes unwrap panic
LockEventLoop(th) ==
    /\ pc[th] = "lock_el"
    /\ write(el_lock)
    /\ IF "event_loop" \in poisoned
       THEN /\ pc' = [pc EXCEPT ![th] = "panicked"]
            /\ UNCHANGED el_lock
       ELSE /\ pc' = [pc EXCEPT ![th] = "lock_srv"]
            /\ el_lock' = th
    /\ UNCHANGED << mode, srv_lock, poisoned, srvvars,
                    backlog, nsock, inq, sent, peerClosed >>

\* self.rpc_server.write().unwrap(): the panic unwinds through the
\* event-loop guard, which poisons and releases that lock
LockRpcServer(th) ==
    /\ pc[th] = "lock_srv"
    /\ write(srv_lock)
    /\ IF "rpc_server" \in poisoned
       THEN /\ pc' = [pc EXCEPT ![th] = "panicked"]
            /\ el_lock' = NoThread
            /\ poisoned' = poisoned \cup {"event_loop"}
            /\ UNCHANGED srv_lock
       ELSE /\ pc' = [pc EXCEPT ![th] = "cycle"]
            /\ srv_lock' = th
            /\ UNCHANGED << el_lock, poisoned >>
    /\ UNCHANGED << mode, srvvars, backlog, nsock, inq, sent, peerClosed >>

\* what the socket may do on a write
WriteOutcomes == {Err, WouldBlock} \cup { Ok(n) : n \in 1..MaxRoom }

\* the one-shot registration of tok is disarmed by the delivery of an event
disarm(M, tok) == [M EXCEPT !.reg[tok][1].armed = FALSE]

\* the state after Handler::ready returned or panicked in thread th: a panic
\* unwinds through both guards, poisoning and releasing both locks
Dispatched(th, M) ==
    /\ connections' = M.conns
    /\ registry' = M.reg
    /\ backlog' = M.backlog
    /\ nsock' = M.nsock
    /\ inq' = M.inq
    /\ out' = M.out
    /\ IF M.panic
       THEN /\ pc' = [pc EXCEPT ![th] = "panicked"]
            /\ el_lock' = NoThread
            /\ srv_lock' = NoThread
            /\ poisoned' = {"event_loop", "rpc_server"}
       ELSE UNCHANGED << pc, el_lock, srv_lock, poisoned >>
    /\ UNCHANGED << mode, sent, peerClosed >>

\* the events the event loop reports for the listener: readable when a
\* connection is pending, or spuriously
ListenerEvents(spurious) ==
    IF "readable" \in registry[SERVER][1].interest /\ (backlog > 0 \/ spurious)
    THEN {"readable"} ELSE {}

\* the events the event loop reports for a connection's socket: those of the
\* registered interest that are ready, and hup once the peer has closed
ConnectionEvents(tok, spurious) ==
    LET reg == registry[tok][1]
        s == connections[tok][1].socket
    IN  (IF "readable" \in reg.interest
            /\ (inq[s] # << >> \/ peerClosed[s] \/ spurious)
         THEN {"readable"} ELSE {})
        \cup (IF "writable" \in reg.interest THEN {"writable"} ELSE {})
        \cup (IF peerClosed[s] THEN {"hup"} ELSE {})

\* EventLoop::run_once delivers an event of the listener to Handler::ready;
\* the outcomes of the system calls are drawn where the handler makes them
ReadyListener(th) ==
    /\ pc[th] = "cycle"
    /\ registry[SERVER][1].armed
    /\ \E spurious \in (IF backlog > 0 THEN {FALSE} ELSE BOOLEAN) :
          LET events == ListenerEvents(spurious) IN
          /\ events # {}
          /\ \E rr_ok \in (IF backlog > 0 THEN BOOLEAN ELSE {TRUE}) :
                Dispatched(th, ready(disarm(Machine, SERVER), SERVER, events,
                                     FALSE, WouldBlock, rr_ok))

\* EventLoop::run_once delivers an event of a connection to Handler::ready;
\* the outcomes of the system calls are drawn where the handler makes them
ReadyConnection(th, tok) ==
    /\ pc[th] = "cycle"
    /\ registry[tok] # None
    /\ registry[tok][1].armed
    /\ \E spurious \in (IF ConnectionEvents(tok, FALSE) = ConnectionEvents(tok, TRUE)
                         THEN {FALSE} ELSE BOOLEAN) :
          LET events == ConnectionEvents(tok, spurious) IN
          /\ events # {}
          /\ \E io_err \in (IF "readable" \in events THEN BOOLEAN ELSE {FALSE}),
                rr_ok \in (IF events \cap {"readable", "writable"} # {}
                           THEN BOOLEAN ELSE {TRUE}),
                wr \in (IF "writable" \in events THEN WriteOutcomes
                                                 ELSE {WouldBlock}) :
                Dispatched(th, ready(disarm(Machine, tok), tok, events,
                                     io_err, wr, rr_ok))

\* EventLoop::run_once returns (its 100 ms wait is over) and Server::poll
\* drops both guards; under Server::run the loop starts its next cycle
PollReturn(th) ==
    /\ pc[th] = "cycle"
    /\ mode[th] = "poll"
    /\ pc' = [pc EXCEPT ![th] = "idle"]
    /\ mode' = [mode EXCEPT ![th] = "none"]
    /\ el_lock' = NoThread
    /\ srv_lock' = NoThread
    /\ UNCHANGED << poisoned, srvvars, backlog, nsock, inq, sent, peerClosed >>

Next ==
    \/ ClientConnect
    \/ \E s \in Sockets, m \in Msgs : ClientSend(s, m)
    \/ \E s \in Sockets : ClientClose(s)
    \/ \E th \in Threads : CallRun(th)
    \/ \E th \in Threads : CallPoll(th)
    \/ \E th \in Threads : LockEventLoop(th)
    \/ \E th \in Threads : LockRpcServer(th)
    \/ \E th \in Threads : ReadyListener(th)
    \/ \E th \in Threads, tok \in Tokens : ReadyConnection(th, tok)
    \/ \E th \in Threads : PollReturn(th)

Spec == Init /\ [][Next]_vars

\* Handler::ready is handed an event whose token is neither SERVER nor the
\* key of an occupied slot of the slab
ReadyStale(th, tok) ==
    /\ pc[th] = "cycle"
    /\ connections[tok] = None
    /\ \E events \in {{"readable"}, {"writable"}} :
          Dispatched(th, ready(Machine, tok, events, FALSE, WouldBlock, TRUE))

NextStale ==
    \/ ClientConnect
    \/ \E s \in Sockets, m \in Msgs : ClientSend(s, m)
    \/ \E s \in Sockets : ClientClose(s)
    \/ \E th \in Threads : CallRun(th)
    \/ \E th \in Threads : CallPoll(th)
    \/ \E th \in Threads : LockEventLoop(th)
    \/ \E th \in Threads : LockRpcServer(th)
    \/ \E th \in Threads : ReadyListener(th)
    \/ \E th \in Threads, tok \in Tokens : ReadyConnection(th, tok)
    \/ \E th \in Threads : PollReturn(th)
    \/ \E th \in Threads, tok \in Tokens : ReadyStale(th, tok)

SpecStale == Init /\ [][NextStale]_vars

\* the server when one client more than the slab's capacity has connected
\* between Server::new and the first cycle of the event loop
InitCrowd ==
    /\ connections = [t \in Tokens |-> None]
    /\ registry = [t \in {SERVER} \cup Tokens |->
                      IF t = SERVER
                      THEN Some([interest |-> {"readable"}, armed |-> TRUE])
                      ELSE None]
    /\ backlog = SlabCapacity + 1
    /\ nsock = 0
    /\ inq = [s \in Sockets |-> << >>]
    /\ sent = [s \in Sockets |-> << >>]
    /\ out = [s \in Sockets |-> << >>]
    /\ peerClosed = [s \in Sockets |-> FALSE]
    /\ pc = [th \in Threads |-> "idle"]
    /\ mode = [th \in Threads |-> "none"]
    /\ el_lock = NoThread
    /\ srv_lock = NoThread
    /\ poisoned = {}

NextCrowd ==
    \/ \E s \in Sockets, m \in Msgs : ClientSend(s, m)
    \/ \E s \in Sockets : ClientClose(s)
    \/ \E th \in Threads : CallRun(th)
    \/ \E th \in Threads : CallPoll(th)
    \/ \E th \in Threads : LockEventLoop(th)
    \/ \E th \in Threads : LockRpcServer(th)
    \/ \E th \in Threads : ReadyListener(th)
    \/ \E th \in Threads, tok \in Tokens : ReadyConnection(th, tok)
    \/ \E th \in Threads : PollReturn(th)

SpecCrowd == InitCrowd /\ [][NextCrowd]_vars

\* a thread that waits for a free lock gets it, and EventLoop::run_once
\* comes back from its bounded wait
FairSpec ==
    /\ Spec
    /\ \A th \in Threads :
          /\ WF_vars(LockEventLoop(th))
          /\ WF_vars(LockRpcServer(th))
          /\ WF_vars(PollReturn(th))

(* ------------------------- shorthands ---------------------------------- *)
Live == { t \in Tokens : connections[t] # None }
Conn(t) == connections[t][1]
SockOf(t) == connections[t][1].socket
RECURSIVE Flat(_)
Flat(msgs) == IF msgs = << >> THEN << >> ELSE Head(msgs) \o Flat(Tail(msgs))

\* the byte strings one read can hand to the handler on socket s: the
\* contiguous pieces of what the client of s has sent (the empty one at EOF)
Chunks(s) ==
    LET all == Flat(sent[s]) IN
    { SubSeq(all, i, j) : i \in 1..(Len(all) + 1), j \in 0..Len(all) }

\* the payloads the handler returns for the reads of socket s
Responses(s) ==
    { handle_request(x)[1] :
          x \in { y \in Chunks(s) : from_utf8_ok(y) /\ handle_request(y) # None } }

\* o is made of beginnings of the responses rs
RECURSIVE IsReplyStream(_, _)
IsReplyStream(o, rs) ==
    \/ o = << >>
    \/ \E r \in rs : \E k \in 1..Min(Len(r), Len(o)) :
          /\ Take(o, k) = Take(r, k)
          /\ IsReplyStream(Drop(o, k), rs)

\* an event of connection t is delivered to Handler::ready in this step
Delivered(t) == \E th \in Threads : ReadyConnection(th, t)

\* an event of connection t is delivered in this step and ready returns
Handled(t) == Delivered(t) /\ ~Crashed'

(* ------------------------------ C1 ------------------------------------- *)
\* C1: once a connection that was sent exactly one message, read in a single
\* read, has finished its flush (the message is consumed, the write buffer is
\* gone and the read buffer is back), the bytes written to its socket are
\* exactly the payload the handler returned for the message.
C1_ReplyIsPayload ==
    \A t \in Live :
        LET s == SockOf(t) IN
        ( /\ Len(sent[s]) = 1
          /\ inq[s] = << >>
          /\ from_utf8_ok(sent[s][1])
          /\ handle_request(sent[s][1]) # None
          /\ Conn(t).buf = None
          /\ Conn(t).mut_buf # None )
        => out[s] = handle_request(sent[s][1])[1]

(* ------------------------------ C2 ------------------------------------- *)
\* the step reads, in one read, a whole message for which the handler
\* returns no payload
ReadsNoReply(t) ==
    LET s == SockOf(t) IN
    /\ Handled(t)
    /\ inq[s] # << >>
    /\ inq'[s] = << >>
    /\ from_utf8_ok(inq[s])
    /\ handle_request(inq[s]) = None

\* C2: after a message for which the handler returns no payload has been
\* read, the connection is still in the slab in AwaitingRequest: it has a
\* read buffer and is armed for readable.
C2_NoReplyStaysAwaiting ==
    [][ \A t \in Live :
          ReadsNoReply(t) =>
            /\ connections'[t] # None
            /\ connections'[t][1].mut_buf # None
            /\ registry'[t][1].armed
            /\ "readable" \in registry'[t][1].interest ]_vars

(* ------------------------------ C3 ------------------------------------- *)
\* C3: when the listener's readable event has been delivered and a
\* connection accepted, the listener is armed again.
C3_ListenerRearmed ==
    [][ nsock' = nsock + 1 => registry'[SERVER][1].armed ]_vars

PartialWrite(t) ==
    LET s == SockOf(t)
        b == Conn(t).buf[1]
    IN  /\ Handled(t)
        /\ Len(out'[s]) > Len(out[s])
        /\ Len(out'[s]) - Len(out[s]) < Len(b.data) - b.pos

\* C5: after a partial write the connection keeps the unsent remainder in
\* its write buffer, stays in Flushing and is re-armed for writable.
C5_PartialWriteKeepsRest ==
    [][ \A t \in Live :
          (Conn(t).buf # None /\ PartialWrite(t)) =>
            /\ connections'[t][1].buf # None
            /\ connections'[t][1].buf[1].data = Conn(t).buf[1].data
            /\ connections'[t][1].buf[1].pos =
                   Conn(t).buf[1].pos + Len(out'[SockOf(t)]) - Len(out[SockOf(t)])
            /\ "writable" \in registry'[t][1].interest ]_vars

(* ------------------------------ C6 ------------------------------------- *)
\* the listener has a readiness event that is still to be delivered
ListenerPending ==
    registry[SERVER][1].armed /\ ListenerEvents(FALSE) # {}

\* C6: when more clients have connected than the slab's reserved capacity
\* and the listener has no event left to deliver, the slab holds more than
\* that many connections: each was accepted and inserted under a token.
C6_AcceptsBeyondCapacity ==
    ( /\ backlog + nsock > SlabCapacity
      /\ ~Crashed
      /\ ~ListenerPending )
    => Cardinality(Live) > SlabCapacity

(* ------------------------------ C7 ------------------------------------- *)
\* C7: handling an event of a client connection never panics the thread
\* that runs the event loop.
C7_ConnectionNeverCrashesLoop ==
    [][ (\E t \in Tokens : Delivered(t)) => (Crashed' <=> Crashed) ]_vars

(* ------------------------------ C8 ------------------------------------- *)
\* C8: when an event is delivered for a connection whose peer has closed,
\* the connection is removed from the slab and deregistered.
C8_PeerCloseRemoves ==
    [][ \A t \in Live :
          (peerClosed[SockOf(t)] /\ Handled(t)) =>
            /\ connections'[t] = None
            /\ registry'[t] = None ]_vars

(* ------------------------------ C9 ------------------------------------- *)
\* the step's read failed: the read buffer was taken and nothing was read
ReadFailed(t) ==
    LET s == SockOf(t) IN
    /\ Handled(t)
    /\ Conn(t).mut_buf # None
    /\ connections'[t][1].mut_buf = None
    /\ connections'[t][1].buf = None
    /\ inq'[s] = inq[s]

\* the step's write failed: the write buffer was taken and nothing written
WriteFailed(t) ==
    /\ Handled(t)
    /\ Conn(t).buf # None
    /\ connections'[t][1].buf = None
    /\ connections'[t][1].mut_buf = None

\* C9: after a read error or a write error the connection is removed from
\* the slab and deregistered.
C9_IoErrorCloses ==
    [][ \A t \in Live :
          (ReadFailed(t) \/ WriteFailed(t)) =>
            /\ connections'[t] = None
            /\ registry'[t] = None ]_vars

(* ------------------------------ C10 ------------------------------------ *)
\* C10: at most one thread is inside a wait+dispatch cycle, and that thread
\* holds the event-loop lock and the dispatcher lock.
C10_OneThreadInCycle ==
    /\ Cardinality({ th \in Threads : pc[th] = "cycle" }) <= 1
    /\ \A th \in Threads :
          /\ pc[th] = "cycle" => (el_lock = th /\ srv_lock = th)
          /\ pc[th] = "lock_srv" => el_lock = th

C10_Witness ==
    \E a, b \in Threads :
        /\ a # b
        /\ pc[a] = "cycle"
        /\ pc[b] = "lock_el"
        /\ Live # {}

(* ------------------------------ C11 ------------------------------------ *)
\* C11: every invocation of Server::poll returns control to its caller.
C11_PollReturns ==
    \A th \in Threads :
        (pc[th] = "lock_el" /\ mode[th] = "poll") ~> (pc[th] = "idle")

(* ------------------------------ C12 ------------------------------------ *)
\* C12: when the listener's readable event is handled and no connection is
\* pending, nothing fails: the event loop has not panicked and the slab is
\* unchanged.
C12_AcceptWouldBlockIsNoError ==
    [][ (backlog = 0 /\ \E th \in Threads : ReadyListener(th)) =>
            /\ ~Crashed'
            /\ connections' = connections ]_vars

(* ------------------------------ C13 ------------------------------------ *)
\* C13: a connection whose interest set includes writable has a write
\* buffer.
C13_FlushingHasWriteBuffer ==
    \A t \in Live :
        "writable" \in Conn(t).interest => Conn(t).buf # None

(* ------------------------------ C14 ------------------------------------ *)
\* the step handles a readable event of t whose read would block
ReadWouldBlock(t) ==
    LET s == SockOf(t) IN
    /\ Handled(t)
    /\ "readable" \in registry[t][1].interest
    /\ inq[s] = << >>
    /\ ~peerClosed[s]
    /\ Conn(t).mut_buf # None
    /\ connections'[t][1].mut_buf # None

\* C14: after a read that would block the connection still has its read
\* buffer and is armed with an interest set that includes readable.
C14_WouldBlockRearmsReadable ==
    [][ \A t \in Live :
          ReadWouldBlock(t) =>
            /\ connections'[t][1].mut_buf = Conn(t).mut_buf
            /\ registry'[t][1].armed
            /\ "readable" \in registry'[t][1].interest ]_vars

(* ------------------------------ C15 ------------------------------------ *)
\* the step handles a writable event of t that writes every remaining byte
FullFlush(t) ==
    LET s == SockOf(t) IN
    /\ Conn(t).buf # None
    /\ Len(out'[s]) - Len(out[s]) =
           Len(Conn(t).buf[1].data) - Conn(t).buf[1].pos
    /\ Handled(t)

C16_OneBufferAtATime ==
    \A t \in Live : Conn(t).mut_buf = None \/ Conn(t).buf = None

\* a connection holds a response in its write buffer, its read buffer taken
C16_Witness ==
    \E t \in Live :
        /\ Conn(t).buf # None
        /\ Conn(t).buf[1].data # << >>
        /\ Conn(t).mut_buf = None

(* ------------------------------ C17 ------------------------------------ *)
\* C17: the interest set a connection is registered under is the
\* connection's own interest set, includes hup, and holds at most one of
\* readable and writable.
C17_RegisteredInterestIsTracked ==
    \A t \in Live :
        registry[t] # None =>
            /\ registry[t][1].interest = Conn(t).interest
            /\ "hup" \in registry[t][1].interest
            /\ ~ {"readable", "writable"} \subseteq registry[t][1].interest

C19_TokenIsSlotKey ==
    /\ \A t \in Live :
          /\ t # SERVER
          /\ Conn(t).token = Some(t)
          /\ registry[t] # None
    /\ \A t, u \in Live :
          t # u => /\ Conn(t).token # Conn(u).token
                   /\ SockOf(t) # SockOf(u)

(* ------------------------------ C20 ------------------------------------ *)
\* C20: a connection armed for readable has its read buffer.
C20_ReadableHasReadBuffer ==
    \A t \in Live :
        ( /\ registry[t] # None
          /\ registry[t][1].armed
          /\ "readable" \in registry[t][1].interest )
        => Conn(t).mut_buf # None

\* a connection is armed for readable again after its response was written
C20_Witness ==
    \E t \in Live :
        /\ registry[t] # None
        /\ registry[t][1].armed
        /\ "readable" \in registry[t][1].interest
        /\ out[SockOf(t)] # << >>
        /\ Conn(t).mut_buf # None

====
